---- MODULE Spec2Model ----
(***************************************************************************)
(* JGManager (source/fltkui/jgmanager.cpp): the frontend's manager of the  *)
(* emulator core.  Every public command is one atomic action (the manager  *)
(* is driven from a single thread).  The core behind the jg_* API is a     *)
(* black box: the values it returns are inputs of the actions, and the     *)
(* calls it receives during the latest command are recorded in `calls`.    *)
(* Strings are sequences of one-character strings.                         *)
(***************************************************************************)
EXTENDS Integers, Sequences, FiniteSets, TLC

VARIABLES
    loaded,     \* bool JGManager::loaded
    basepath,   \* std::string basepath
    savepath,   \* std::string savepath
    corepath,   \* std::string corepath
    pathinfo,   \* jg_pathinfo_t pathinfo (the strings its pointers alias)
    gameinfo,   \* jg_fileinfo_t gameinfo (the strings its pointers alias)
    gamepath,   \* std::string gamepath
    gamename,   \* std::string gamename
    gamefname,  \* std::string gamefname
    gamemd5,    \* std::string gamemd5
    settings,   \* std::vector<jg_setting_t*> settings (indices into the core's array)
    coresettings, \* the names of the core's jg_setting_t array, in the core's order
    frametime,  \* file-scope int frametime
    alive,      \* the object is constructed and not yet destroyed
    env,        \* the environment the constructor read
    lastfile,   \* the filename given to the latest load_game call
    balance,    \* successful core game-loads minus core game-unloads so far
    cmd,        \* the latest command: its name, arguments, the core's answers, loaded at entry
    calls,      \* core API calls made by the latest command, in order
    logs,       \* LogDriver::jg_log messages emitted by the latest command, in order
    ret         \* value returned by the latest command

progvars == <<loaded, basepath, savepath, corepath, pathinfo, gameinfo,
              gamepath, gamename, gamefname, gamemd5, settings, frametime>>
vars == <<loaded, basepath, savepath, corepath, pathinfo, gameinfo,
          gamepath, gamename, gamefname, gamemd5, settings, frametime,
          coresettings, alive, env, lastfile, balance, cmd, calls, logs, ret>>

----------------------------------------------------------------------------
(* Bounds of the model *)

\* largest magnitude of a quick slot
MaxSlot == 10
\* largest status the core returns from state-load / state-save / init
MaxStatus == 2
\* largest reset mode flag
MaxHard == 2
\* longest setting array the core exports
MaxSettings == 3

----------------------------------------------------------------------------
(* Inputs *)

\* filenames handed to load_game: "", "a", "a.b", "a.b.c", ".a", "..", "a/",
\* "d/a.b", "/d.e/a", "/t/A b.n"
FileNames == {<<>>,
              <<"a">>,
              <<"a", ".", "b">>,
              <<"a", ".", "b", ".", "c">>,
              <<".", "a">>,
              <<".", ".">>,
              <<"a", "/">>,
              <<"d", "/", "a", ".", "b">>,
              <<"/", "d", ".", "e", "/", "a">>,
              <<"/", "t", "/", "A", " ", "b", ".", "n">>}

\* ROM images (byte buffers) handed to load_game
Games == {<<222, 173>>, <<0>>}

Slots == {-MaxSlot, -1, 0, 3, MaxSlot}

CoreStatus == -1 .. MaxStatus

Hards == 0 .. MaxHard

\* paths handed to state_load / state_save directly
StatePaths == {<<"x", ".", "n", "s", "t">>}

\* cheat codes handed to cheat_set
CheatCodes == {<<"S", "X", "I", "O", "P", "O">>}

\* the names of the core's setting descriptors, in the core's order
CoreSettings == <<"a", "b">>

RECURSIVE SeqsUpTo(_, _)
SeqsUpTo(S, n) ==
    IF n = 0 THEN {<<>>}
    ELSE LET shorter == SeqsUpTo(S, n - 1)
         IN  shorter \cup {Append(q, c) : q \in shorter, c \in S}

\* names a setting descriptor may carry, and setting arrays the core may export
SettingNames == {"a", "A", "b"}
SettingArrays == SeqsUpTo(SettingNames, MaxSettings)
\* names get_setting is asked for
SettingQueries == SettingNames \cup {"c"}

XdgValues == {[set |-> FALSE, val |-> <<>>],
              [set |-> TRUE,  val |-> <<>>],
              [set |-> TRUE,  val |-> <<"/", "d">>]}

HomeValue == <<"/", "h">>
PwdValue == <<"/", "w">>
NST_DATADIR == <<"/", "u">>

NoRet == "void"

----------------------------------------------------------------------------
(* String helpers: std::to_string(int), std::filesystem::path *)

DigitChars == <<"0", "1", "2", "3", "4", "5", "6", "7", "8", "9">>

RECURSIVE Digits(_)
Digits(n) ==
    IF n < 10 THEN <<DigitChars[n + 1]>>
    ELSE Append(Digits(n \div 10), DigitChars[(n % 10) + 1])

\* std::to_string(int): "%d"
to_string(n) == IF n < 0 THEN <<"-">> \o Digits(-n) ELSE Digits(n)

\* index of the last occurrence of c in s, 0 when there is none
LastIndexOf(s, c) ==
    LET I == {i \in DOMAIN s : s[i] = c}
    IN  IF I = {} THEN 0 ELSE CHOOSE i \in I : \A j \in I : j <= i

\* std::filesystem::path(p).filename(): what follows the last separator
path_filename(p) == SubSeq(p, LastIndexOf(p, "/") + 1, Len(p))

\* std::filesystem::path(p).stem(): the filename without its final extension;
\* ".", ".." and a filename whose only period is its first character are kept whole
path_stem(p) ==
    LET f == path_filename(p)
        d == LastIndexOf(f, ".")
    IN  IF f = <<".">> \/ f = <<".", ".">> \/ d <= 1 THEN f
        ELSE SubSeq(f, 1, d - 1)

\* Hasher::crc and Hasher::md5 are external: functions of the buffer only
Hasher_crc(game) == <<"crc32", game>>
Hasher_md5(game) == <<"md5", game>>

----------------------------------------------------------------------------
(* Core API calls as recorded in `calls` *)

Call0(name) == <<name>>
Call1(name, arg) == <<name, arg>>

\* number of calls of the core entry `name` in trace t
Count(t, name) == Cardinality({i \in DOMAIN t : t[i][1] = name})
\* positions of the calls of `name` in trace t
Pos(t, name) == {i \in DOMAIN t : t[i][1] = name}

\* what the calls t of one command add to the core's balance of games: the
\* game-loads that succeeded (ok) minus the game-unloads
BalanceDelta(t, ok) ==
    (IF ok THEN Count(t, "jg_game_load") ELSE 0) - Count(t, "jg_game_unload")

----------------------------------------------------------------------------
(* Construction *)

\* a bug: set_paths pointing pathinfo.bios at the save path
set_paths_bios_is_save(e) ==
    LET base == IF e.xdg.set THEN e.xdg.val \o <<"/", "n", "e", "s", "t", "o", "p", "i", "a">>
                ELSE e.home \o <<"/", ".", "l", "o", "c", "a", "l", "/", "s", "h", "a", "r", "e",
                                 "/", "n", "e", "s", "t", "o", "p", "i", "a">>
        save == base \o <<"/", "s", "a", "v", "e">>
        core == IF e.intree THEN e.pwd ELSE NST_DATADIR
        pi   == [base |-> base, bios |-> save, user |-> base, save |-> save, core |-> core]
    IN  [basepath |-> base, savepath |-> save, corepath |-> core, pathinfo |-> pi,
         calls |-> <<Call1("jg_set_paths", pi)>>]

\* JGManager::set_paths
set_paths(e) ==
    LET base == IF e.xdg.set THEN e.xdg.val \o <<"/", "n", "e", "s", "t", "o", "p", "i", "a">>
                ELSE e.home \o <<"/", ".", "l", "o", "c", "a", "l", "/", "s", "h", "a", "r", "e",
                                 "/", "n", "e", "s", "t", "o", "p", "i", "a">>
        save == base \o <<"/", "s", "a", "v", "e">>
        core == IF e.intree THEN e.pwd ELSE NST_DATADIR
        pi   == [base |-> base, bios |-> base, user |-> base, save |-> save, core |-> core]
    IN  [basepath |-> base, savepath |-> save, corepath |-> core, pathinfo |-> pi,
         calls |-> <<Call1("jg_set_paths", pi)>>]

\* the members before load_game first assigns them
NoGameInfo == [data |-> <<>>, size |-> 0, crc |-> <<>>, md5 |-> <<>>,
               path |-> <<>>, name |-> <<>>, fname |-> <<>>]

\* a bug: the constructor initialising the core before registering the callbacks
constructor_calls_init_first ==
    <<Call0("jg_get_settings"),
      Call0("jg_init"),
      Call1("jg_set_cb_frametime", "jg_frametime"),
      Call1("jg_set_cb_log", "LogDriver::jg_log")>>

\* the core calls of JGManager::JGManager after set_paths
constructor_calls ==
    <<Call0("jg_get_settings"),
      Call1("jg_set_cb_frametime", "jg_frametime"),
      Call1("jg_set_cb_log", "LogDriver::jg_log"),
      Call0("jg_init")>>

\* JGManager::JGManager run in environment e, the core exporting the setting
\* array arr and answering st to jg_init
Construct(e, arr, st) ==
    LET p == set_paths(e)
    IN  /\ env = e
        /\ basepath = p.basepath
        /\ savepath = p.savepath
        /\ corepath = p.corepath
        /\ pathinfo = p.pathinfo
        /\ coresettings = arr
        /\ settings = [i \in DOMAIN arr |-> i]
        /\ frametime = 60
        /\ loaded = FALSE
        /\ gameinfo = NoGameInfo
        /\ gamepath = <<>>
        /\ gamename = <<>>
        /\ gamefname = <<>>
        /\ gamemd5 = <<>>
        /\ alive = TRUE
        /\ lastfile = <<>>
        /\ balance = 0
        /\ cmd = [op |-> "JGManager", args |-> <<>>, core |-> <<st>>, pre |-> FALSE]
        /\ calls = p.calls \o constructor_calls
        /\ logs = <<>>
        /\ ret = NoRet

Env(x, t) == [xdg |-> x, home |-> HomeValue, pwd |-> PwdValue, intree |-> t]

Init ==
    \E x \in XdgValues, t \in BOOLEAN, st \in CoreStatus :
        Construct(Env(x, t), CoreSettings, st)

----------------------------------------------------------------------------
(* Load / unload *)

\* JGManager::get_basepath
get_basepath == basepath

\* JGManager::get_gamename
get_gamename == gamename

\* JGManager::is_loaded
is_loaded == loaded

\* a bug: unload_game without its `if (loaded)` guard
unload_game_unguarded(l) ==
    [calls |-> <<Call0("jg_game_unload")>>, loaded |-> FALSE]

\* the body of JGManager::unload_game entered with loaded = l
unload_game_eff(l) ==
    IF l THEN [calls |-> <<Call0("jg_game_unload")>>, loaded |-> FALSE]
    ELSE [calls |-> <<>>, loaded |-> l]

\* JGManager::unload_game
unload_game ==
    LET u == unload_game_eff(loaded)
    IN  /\ alive
        /\ loaded' = u.loaded
        /\ calls' = u.calls
        /\ cmd' = [op |-> "unload_game", args |-> <<>>, core |-> <<>>, pre |-> loaded]
        /\ logs' = <<>>
        /\ ret' = NoRet
        /\ balance' = balance + BalanceDelta(u.calls, FALSE)
        /\ UNCHANGED <<basepath, savepath, corepath, pathinfo, gameinfo, gamepath,
                       gamename, gamefname, gamemd5, settings, coresettings,
                       frametime, alive, env, lastfile>>

\* the record load_game fills in before jg_set_gameinfo
make_gameinfo(filename, game) ==
    [data |-> game, size |-> Len(game), crc |-> Hasher_crc(game),
     md5 |-> Hasher_md5(game), path |-> filename,
     name |-> path_stem(filename), fname |-> path_filename(filename)]

\* a bug: load_game without the `return` of its failure branch
load_game_no_return(l, gi, ok) ==
    LET u  == unload_game_eff(l)
        tr == u.calls \o <<Call1("jg_set_gameinfo", gi), Call0("jg_game_load")>>
        f  == unload_game_eff(u.loaded)
    IN  IF ~ok THEN [calls |-> tr \o f.calls, loaded |-> TRUE, atassign |-> u.loaded]
        ELSE [calls |-> tr, loaded |-> TRUE, atassign |-> u.loaded]

\* a bug: load_game registering the game record after jg_game_load
load_game_late_gameinfo(l, gi, ok) ==
    LET u  == unload_game_eff(l)
        tr == u.calls \o <<Call0("jg_game_load"), Call1("jg_set_gameinfo", gi)>>
        f  == unload_game_eff(u.loaded)
    IN  IF ~ok THEN [calls |-> tr \o f.calls, loaded |-> f.loaded, atassign |-> u.loaded]
        ELSE [calls |-> tr, loaded |-> TRUE, atassign |-> u.loaded]

\* a bug: load_game without its initial unload_game
load_game_no_unload_first(l, gi, ok) ==
    LET tr == <<Call1("jg_set_gameinfo", gi), Call0("jg_game_load")>>
        f  == unload_game_eff(l)
    IN  IF ~ok THEN [calls |-> tr \o f.calls, loaded |-> f.loaded, atassign |-> l]
        ELSE [calls |-> tr, loaded |-> TRUE, atassign |-> l]

\* a bug: load_game assigning the game strings before its initial unload_game
load_game_assign_first(l, gi, ok) ==
    LET u  == unload_game_eff(l)
        tr == u.calls \o <<Call1("jg_set_gameinfo", gi), Call0("jg_game_load")>>
        f  == unload_game_eff(u.loaded)
    IN  IF ~ok THEN [calls |-> tr \o f.calls, loaded |-> f.loaded, atassign |-> l]
        ELSE [calls |-> tr, loaded |-> TRUE, atassign |-> l]

\* a bug: the failure branch of load_game calling jg_game_unload itself
load_game_unload_on_failure(l, gi, ok) ==
    LET u  == unload_game_eff(l)
        tr == u.calls \o <<Call1("jg_set_gameinfo", gi), Call0("jg_game_load")>>
    IN  IF ~ok THEN [calls |-> tr \o <<Call0("jg_game_unload")>>, loaded |-> FALSE,
                     atassign |-> u.loaded]
        ELSE [calls |-> tr, loaded |-> TRUE, atassign |-> u.loaded]

\* the core calls and the final `loaded` of JGManager::load_game entered with
\* loaded = l, registering gi, the core's jg_game_load answering ok; atassign is
\* the value of `loaded` while the game strings are assigned (lines 88-102)
load_game_eff(l, gi, ok) ==
    LET u  == unload_game_eff(l)
        tr == u.calls \o <<Call1("jg_set_gameinfo", gi), Call0("jg_game_load")>>
        f  == unload_game_eff(u.loaded)
    IN  IF ~ok THEN [calls |-> tr \o f.calls, loaded |-> f.loaded, atassign |-> u.loaded]
        ELSE [calls |-> tr, loaded |-> TRUE, atassign |-> u.loaded]

\* JGManager::load_game
load_game(filename, game, ok) ==
    LET gi == make_gameinfo(filename, game)
        r  == load_game_eff(loaded, gi, ok)
    IN  /\ alive
        /\ gameinfo' = gi
        /\ gamemd5' = gi.md5
        /\ gamepath' = gi.path
        /\ gamename' = gi.name
        /\ gamefname' = gi.fname
        /\ loaded' = r.loaded
        /\ calls' = r.calls
        /\ cmd' = [op |-> "load_game", args |-> <<filename, game>>, core |-> <<ok>>,
                   pre |-> loaded, atassign |-> r.atassign]
        /\ logs' = <<>>
        /\ ret' = NoRet
        /\ lastfile' = filename
        /\ balance' = balance + BalanceDelta(r.calls, ok)
        /\ UNCHANGED <<basepath, savepath, corepath, pathinfo, settings, coresettings,
                       frametime, alive, env>>

----------------------------------------------------------------------------
(* Commands *)

\* what every command but load_game and unload_game leaves alone
KeepGame == UNCHANGED <<basepath, savepath, corepath, pathinfo, gameinfo, gamepath,
                        gamename, gamefname, gamemd5, settings, coresettings,
                        frametime, alive, env, lastfile, balance>>

\* JGManager::init
init(st) ==
    /\ alive
    /\ calls' = <<Call0("jg_init")>>
    /\ ret' = st
    /\ cmd' = [op |-> "init", args |-> <<>>, core |-> <<st>>, pre |-> loaded]
    /\ logs' = <<>>
    /\ UNCHANGED loaded
    /\ KeepGame

\* the core calls of JGManager::exec_frame entered with loaded = l
exec_frame_eff(l) == <<Call0("jg_exec_frame")>>

\* JGManager::exec_frame
exec_frame ==
    /\ alive
    /\ calls' = exec_frame_eff(loaded)
    /\ ret' = NoRet
    /\ cmd' = [op |-> "exec_frame", args |-> <<>>, core |-> <<>>, pre |-> loaded]
    /\ logs' = <<>>
    /\ UNCHANGED loaded
    /\ KeepGame

\* a bug: reset passing a boolean instead of the integer flag
reset_bool_flag(l, hard) ==
    IF l THEN <<Call1("jg_reset", IF hard # 0 THEN 1 ELSE 0)>> ELSE <<>>

\* the core calls of JGManager::reset entered with loaded = l
reset_eff(l, hard) == IF l THEN <<Call1("jg_reset", hard)>> ELSE <<>>

\* JGManager::reset
reset(hard) ==
    /\ alive
    /\ calls' = reset_eff(loaded, hard)
    /\ ret' = NoRet
    /\ cmd' = [op |-> "reset", args |-> <<hard>>, core |-> <<>>, pre |-> loaded]
    /\ logs' = <<>>
    /\ UNCHANGED loaded
    /\ KeepGame

\* a bug: state_load without its `if (!loaded)` guard
state_load_unguarded(l, filename, st) ==
    [ret |-> st, calls |-> <<Call1("jg_state_load", filename)>>]

\* the body of JGManager::state_load entered with loaded = l, the core answering st
state_load_eff(l, filename, st) ==
    IF ~l THEN [ret |-> 2, calls |-> <<>>]
    ELSE [ret |-> st, calls |-> <<Call1("jg_state_load", filename)>>]

\* JGManager::state_load
state_load(filename, st) ==
    LET r == state_load_eff(loaded, filename, st)
    IN  /\ alive
        /\ calls' = r.calls
        /\ ret' = r.ret
        /\ cmd' = [op |-> "state_load", args |-> <<filename>>,
                   core |-> IF loaded THEN <<st>> ELSE <<>>, pre |-> loaded]
        /\ logs' = <<>>
        /\ UNCHANGED loaded
        /\ KeepGame

\* the body of JGManager::state_save entered with loaded = l, the core answering st
state_save_eff(l, filename, st) ==
    IF ~l THEN [ret |-> 2, calls |-> <<>>]
    ELSE [ret |-> st, calls |-> <<Call1("jg_state_save", filename)>>]

\* JGManager::state_save
state_save(filename, st) ==
    LET r == state_save_eff(loaded, filename, st)
    IN  /\ alive
        /\ calls' = r.calls
        /\ ret' = r.ret
        /\ cmd' = [op |-> "state_save", args |-> <<filename>>,
                   core |-> IF loaded THEN <<st>> ELSE <<>>, pre |-> loaded]
        /\ logs' = <<>>
        /\ UNCHANGED loaded
        /\ KeepGame

\* a bug: the slot path without the separator after "/state"
slotpath_no_separator(base, name, slot) ==
    base \o <<"/", "s", "t", "a", "t", "e">> \o name \o <<"_">>
         \o to_string(slot) \o <<".", "n", "s", "t">>

\* std::string slotpath of state_qload / state_qsave
slotpath(base, name, slot) ==
    base \o <<"/", "s", "t", "a", "t", "e", "/">> \o name \o <<"_">>
         \o to_string(slot) \o <<".", "n", "s", "t">>

JG_LOG_SCR == "JG_LOG_SCR"

\* the switch (result) of state_qload
qload_log(result) ==
    CASE result = 0 -> <<JG_LOG_SCR, "State Load Failed">>
      [] result = 1 -> <<JG_LOG_SCR, "State Loaded">>
      [] OTHER      -> <<JG_LOG_SCR, "State Load Unknown">>

\* a bug: the cases 0 and 1 of state_qsave's switch exchanged
qsave_log_swapped(result) ==
    CASE result = 1 -> <<JG_LOG_SCR, "State Save Failed">>
      [] result = 0 -> <<JG_LOG_SCR, "State Saved">>
      [] OTHER      -> <<JG_LOG_SCR, "State Save Unknown">>

\* the switch (result) of state_qsave
qsave_log(result) ==
    CASE result = 0 -> <<JG_LOG_SCR, "State Save Failed">>
      [] result = 1 -> <<JG_LOG_SCR, "State Saved">>
      [] OTHER      -> <<JG_LOG_SCR, "State Save Unknown">>

\* the body of JGManager::state_qload entered with loaded = l, the core answering st
state_qload_eff(l, slot, st) ==
    IF ~l THEN [ret |-> 2, calls |-> <<>>, logs |-> <<>>]
    ELSE LET r == state_load_eff(l, slotpath(basepath, gamename, slot), st)
         IN  [ret |-> r.ret, calls |-> r.calls, logs |-> <<qload_log(r.ret)>>]

\* JGManager::state_qload
state_qload(slot, st) ==
    LET r == state_qload_eff(loaded, slot, st)
    IN  /\ alive
        /\ calls' = r.calls
        /\ ret' = r.ret
        /\ logs' = r.logs
        /\ cmd' = [op |-> "state_qload", args |-> <<slot>>,
                   core |-> IF loaded THEN <<st>> ELSE <<>>, pre |-> loaded]
        /\ UNCHANGED loaded
        /\ KeepGame

\* the body of JGManager::state_qsave entered with loaded = l, the core answering st
state_qsave_eff(l, slot, st) ==
    IF ~l THEN [ret |-> 2, calls |-> <<>>, logs |-> <<>>]
    ELSE LET r == state_save_eff(l, slotpath(basepath, gamename, slot), st)
         IN  [ret |-> r.ret, calls |-> r.calls, logs |-> <<qsave_log(r.ret)>>]

\* JGManager::state_qsave
state_qsave(slot, st) ==
    LET r == state_qsave_eff(loaded, slot, st)
    IN  /\ alive
        /\ calls' = r.calls
        /\ ret' = r.ret
        /\ logs' = r.logs
        /\ cmd' = [op |-> "state_qsave", args |-> <<slot>>,
                   core |-> IF loaded THEN <<st>> ELSE <<>>, pre |-> loaded]
        /\ UNCHANGED loaded
        /\ KeepGame

\* the core calls of JGManager::media_select entered with loaded = l
media_select_eff(l) == IF ~l THEN <<>> ELSE <<Call0("jg_media_select")>>

\* JGManager::media_select
media_select ==
    /\ alive
    /\ calls' = media_select_eff(loaded)
    /\ ret' = NoRet
    /\ cmd' = [op |-> "media_select", args |-> <<>>, core |-> <<>>, pre |-> loaded]
    /\ logs' = <<>>
    /\ UNCHANGED loaded
    /\ KeepGame

\* the core calls of JGManager::media_insert entered with loaded = l
media_insert_eff(l) == IF ~l THEN <<>> ELSE <<Call0("jg_media_insert")>>

\* JGManager::media_insert
media_insert ==
    /\ alive
    /\ calls' = media_insert_eff(loaded)
    /\ ret' = NoRet
    /\ cmd' = [op |-> "media_insert", args |-> <<>>, core |-> <<>>, pre |-> loaded]
    /\ logs' = <<>>
    /\ UNCHANGED loaded
    /\ KeepGame

\* JGManager::cheat_clear
cheat_clear ==
    /\ alive
    /\ calls' = <<Call0("jg_cheat_clear")>>
    /\ ret' = NoRet
    /\ cmd' = [op |-> "cheat_clear", args |-> <<>>, core |-> <<>>, pre |-> loaded]
    /\ logs' = <<>>
    /\ UNCHANGED loaded
    /\ KeepGame

\* JGManager::cheat_set
cheat_set(code) ==
    /\ alive
    /\ calls' = <<Call1("jg_cheat_set", code)>>
    /\ ret' = NoRet
    /\ cmd' = [op |-> "cheat_set", args |-> <<code>>, core |-> <<>>, pre |-> loaded]
    /\ logs' = <<>>
    /\ UNCHANGED loaded
    /\ KeepGame

\* the core calls of JGManager::rehash entered with loaded = l
rehash_eff(l) == IF l THEN <<Call0("jg_rehash")>> ELSE <<>>

\* JGManager::rehash
rehash ==
    /\ alive
    /\ calls' = rehash_eff(loaded)
    /\ ret' = NoRet
    /\ cmd' = [op |-> "rehash", args |-> <<>>, core |-> <<>>, pre |-> loaded]
    /\ logs' = <<>>
    /\ UNCHANGED loaded
    /\ KeepGame

\* a bug: the destructor unloading before jg_deinit
destructor_unload_first(l) ==
    LET u == unload_game_eff(l)
    IN  [calls |-> u.calls \o <<Call0("jg_deinit")>>, loaded |-> u.loaded]

\* the body of JGManager::~JGManager entered with loaded = l
destructor_eff(l) ==
    LET u == unload_game_eff(l)
    IN  [calls |-> <<Call0("jg_deinit")>> \o u.calls, loaded |-> u.loaded]

\* JGManager::~JGManager
Destructor ==
    LET d == destructor_eff(loaded)
    IN  /\ alive
        /\ alive' = FALSE
        /\ loaded' = d.loaded
        /\ calls' = d.calls
        /\ ret' = NoRet
        /\ cmd' = [op |-> "~JGManager", args |-> <<>>, core |-> <<>>, pre |-> loaded]
        /\ logs' = <<>>
        /\ balance' = balance + BalanceDelta(d.calls, FALSE)
        /\ UNCHANGED <<basepath, savepath, corepath, pathinfo, gameinfo, gamepath,
                       gamename, gamefname, gamemd5, settings, coresettings,
                       frametime, env, lastfile>>

----------------------------------------------------------------------------

Next ==
    \/ \E st \in CoreStatus : init(st)
    \/ exec_frame
    \/ \E hard \in Hards : reset(hard)
    \/ \E fn \in StatePaths, st \in CoreStatus : state_load(fn, st)
    \/ \E fn \in StatePaths, st \in CoreStatus : state_save(fn, st)
    \/ \E slot \in Slots, st \in CoreStatus : state_qload(slot, st)
    \/ \E slot \in Slots, st \in CoreStatus : state_qsave(slot, st)
    \/ media_select
    \/ media_insert
    \/ cheat_clear
    \/ \E code \in CheatCodes : cheat_set(code)
    \/ rehash
    \/ Destructor
    \/ unload_game
    \/ \E fn \in FileNames, g \in Games, ok \in BOOLEAN : load_game(fn, g, ok)

Spec == Init /\ [][Next]_vars

----------------------------------------------------------------------------
(* Settings registry *)

\* the null pointer get_setting returns when no descriptor matches
NullPtr == 0

\* the for loop of JGManager::get_setting from position i of the vector on
RECURSIVE get_setting_scan(_, _, _, _)
get_setting_scan(vec, core, i, name) ==
    IF i > Len(vec) THEN NullPtr
    ELSE IF core[vec[i]] = name THEN vec[i]
    ELSE get_setting_scan(vec, core, i + 1, name)

\* a bug: the loop of get_setting starting at the second element
get_setting_skip_first(vec, core, name) == get_setting_scan(vec, core, 2, name)

\* the pointer JGManager::get_setting returns for `name`
get_setting_eff(vec, core, name) == get_setting_scan(vec, core, 1, name)

\* JGManager::get_setting
get_setting(name) ==
    /\ alive
    /\ calls' = <<>>
    /\ ret' = get_setting_eff(settings, coresettings, name)
    /\ cmd' = [op |-> "get_setting", args |-> <<name>>, core |-> <<>>, pre |-> loaded]
    /\ logs' = <<>>
    /\ UNCHANGED loaded
    /\ KeepGame

\* JGManager::get_settings
get_settings ==
    /\ alive
    /\ calls' = <<>>
    /\ ret' = settings
    /\ cmd' = [op |-> "get_settings", args |-> <<>>, core |-> <<>>, pre |-> loaded]
    /\ logs' = <<>>
    /\ UNCHANGED loaded
    /\ KeepGame

\* the manager constructed over any setting array, then queried
InitSettings ==
    \E arr \in SettingArrays, st \in CoreStatus :
        Construct(Env([set |-> TRUE, val |-> <<"/", "d">>], FALSE), arr, st)

NextSettings ==
    \/ \E name \in SettingQueries : get_setting(name)
    \/ get_settings

SpecSettings == InitSettings /\ [][NextSettings]_vars

----------------------------------------------------------------------------
(* Frametime callback *)

\* intervals the core reports, in tenths: 16.8, 59.4, 60.0, 0.4, 0.5, -0.4, -0.7, -1.7
Intervals == {168, 594, 600, 4, 5, -4, -7, -17}

\* conversion of a double (n tenths) to int: the fraction is discarded, toward zero
double_to_int(n) == IF n >= 0 THEN n \div 10 ELSE 0 - ((0 - n) \div 10)

\* the value jg_frametime stores for an interval of t tenths: interval + 0.5 as int
jg_frametime_eff(t) == double_to_int(t + 5)

\* jg_frametime, the callback registered with jg_set_cb_frametime
jg_frametime(t) ==
    /\ alive
    /\ frametime' = jg_frametime_eff(t)
    /\ calls' = <<>>
    /\ ret' = NoRet
    /\ cmd' = [op |-> "jg_frametime", args |-> <<t>>, core |-> <<>>, pre |-> loaded]
    /\ logs' = <<>>
    /\ UNCHANGED <<loaded, basepath, savepath, corepath, pathinfo, gameinfo, gamepath,
                   gamename, gamefname, gamemd5, settings, coresettings, alive, env,
                   lastfile, balance>>

\* JGManager::get_frametime
get_frametime == frametime

\* the manager driven by its commands while the core reports frame intervals
InitFrametime ==
    \E st \in CoreStatus :
        Construct(Env([set |-> TRUE, val |-> <<"/", "d">>], FALSE), CoreSettings, st)

NextFrametime ==
    \/ Next
    \/ \E t \in Intervals : jg_frametime(t)

SpecFrametime == InitFrametime /\ [][NextFrametime]_vars

----------------------------------------------------------------------------
(* Properties *)

StateOps == {"state_load", "state_save", "state_qload", "state_qsave"}
QuickOps == {"state_qload", "state_qsave"}
UnloadOps == {"unload_game", "~JGManager"}

\* the value of a string of decimal digits
RECURSIVE NatOf(_)
NatOf(d) ==
    IF d = <<>> THEN 0
    ELSE 10 * NatOf(SubSeq(d, 1, Len(d) - 1))
         + (CHOOSE k \in 0 .. 9 : DigitChars[k + 1] = d[Len(d)])

\* d is the decimal representation of the integer n: an optional minus sign, then
\* digits without zero padding
IsDecimalOf(d, n) ==
    LET neg  == Len(d) > 0 /\ d[1] = "-"
        digs == IF neg THEN Tail(d) ELSE d
    IN  /\ Len(digs) > 0
        /\ \A i \in DOMAIN digs : \E k \in DOMAIN DigitChars : DigitChars[k] = digs[i]
        /\ Len(digs) > 1 => digs[1] # "0"
        /\ neg => digs # <<"0">>
        /\ n = (IF neg THEN 0 - NatOf(digs) ELSE NatOf(digs))

\* p is base + "/state/" + name + "_" + decimal(slot) + ".nst"
IsQuickSlotPath(p, base, name, slot) ==
    LET prefix == base \o <<"/", "s", "t", "a", "t", "e", "/">> \o name \o <<"_">>
        suffix == <<".", "n", "s", "t">>
    IN  /\ Len(p) >= Len(prefix) + Len(suffix)
        /\ SubSeq(p, 1, Len(prefix)) = prefix
        /\ SubSeq(p, Len(p) - Len(suffix) + 1, Len(p)) = suffix
        /\ IsDecimalOf(SubSeq(p, Len(prefix) + 1, Len(p) - Len(suffix)), slot)

\* C1: after every command, is_loaded() is the core's game-load answer if the
\* command was load_game, false if it was unload_game (also as called by the
\* destructor), and what it was when the command was entered otherwise: so it is
\* true exactly when the latest load_game succeeded and no unload_game followed.
C1_IsLoadedFollowsLoadAndUnload ==
    /\ cmd.op = "load_game" => is_loaded = cmd.core[1]
    /\ cmd.op \in UnloadOps => ~is_loaded
    /\ cmd.op \notin UnloadOps \cup {"load_game"} => is_loaded = cmd.pre

\* C1 witness: an unload_game that ended a successful load
C1_Witness == cmd.op = "unload_game" /\ cmd.pre /\ ~is_loaded

\* C2: exec_frame entered with no game loaded does not call the core's
\* single-frame step.
C2_ExecFrameNoopWhileUnloaded ==
    (cmd.op = "exec_frame" /\ ~cmd.pre) => Count(calls, "jg_exec_frame") = 0

\* C3: after a load_game whose game-load failed, loaded is false and the core saw,
\* within that call, one game-load followed by one game-unload.
C3_FailedLoadUnloadsCore ==
    (cmd.op = "load_game" /\ ~cmd.core[1]) =>
        /\ ~loaded
        /\ Count(calls, "jg_game_load") = 1
        /\ Count(calls, "jg_game_unload") = 1
        /\ \A i \in Pos(calls, "jg_game_load"), j \in Pos(calls, "jg_game_unload") : i < j

\* C4: after a load_game whose game-load succeeded, is_loaded() is true and the
\* core saw, within that call, exactly one set-gameinfo, then exactly one
\* game-load, and no game-unload after the game-load.
C4_SuccessfulLoad ==
    (cmd.op = "load_game" /\ cmd.core[1]) =>
        /\ is_loaded
        /\ Count(calls, "jg_set_gameinfo") = 1
        /\ Count(calls, "jg_game_load") = 1
        /\ \A i \in Pos(calls, "jg_set_gameinfo"), j \in Pos(calls, "jg_game_load") : i < j
        /\ \A i \in Pos(calls, "jg_game_load"), j \in Pos(calls, "jg_game_unload") : j < i

\* C4 witness: a successful load_game that replaced a loaded game
C4_Witness ==
    cmd.op = "load_game" /\ cmd.core[1] /\ cmd.pre /\ Len(calls) = 3 /\ is_loaded

\* C5: state_load, state_save, state_qload and state_qsave entered with no game
\* loaded return 2, call no core entry, log nothing and leave loaded false.
C5_StateOpsWhileUnloaded ==
    (cmd.op \in StateOps /\ ~cmd.pre) =>
        /\ ret = 2
        /\ calls = <<>>
        /\ logs = <<>>
        /\ ~loaded

\* C5 witness: a state_load refused because no game is loaded
C5_Witness == cmd.op = "state_load" /\ ~cmd.pre /\ ret = 2

\* C6: unload_game entered loaded calls game-unload once and clears loaded;
\* entered unloaded it calls nothing and changes nothing; an unload_game that
\* directly follows an unload_game calls nothing.
C6_UnloadGame ==
    [][cmd'.op = "unload_game" =>
        /\ loaded => (calls' = <<Call0("jg_game_unload")>> /\ ~loaded')
        /\ ~loaded => (calls' = <<>> /\ UNCHANGED progvars)
        /\ cmd.op = "unload_game" => calls' = <<>>]_vars

\* C6 witness: an unload_game that found a game loaded
C6_Witness ==
    cmd.op = "unload_game" /\ cmd.pre /\ calls = <<Call0("jg_game_unload")>>

\* C7: reset, media_select, media_insert and rehash call nothing when entered
\* unloaded; entered loaded each makes exactly its one core call (reset with the
\* flag it was given) and leaves loaded true.
C7_GuardedDelegation ==
    (cmd.op \in {"reset", "media_select", "media_insert", "rehash"}) =>
        IF cmd.pre
        THEN /\ loaded
             /\ cmd.op = "reset" => calls = <<Call1("jg_reset", cmd.args[1])>>
             /\ cmd.op = "media_select" => calls = <<Call0("jg_media_select")>>
             /\ cmd.op = "media_insert" => calls = <<Call0("jg_media_insert")>>
             /\ cmd.op = "rehash" => calls = <<Call0("jg_rehash")>>
        ELSE calls = <<>> /\ ~loaded

\* C7 witness: a reset of a loaded game with the largest flag
C7_Witness ==
    cmd.op = "reset" /\ cmd.pre /\ cmd.args[1] = MaxHard /\ Len(calls) = 1

\* C8: state_qsave / state_qload entered loaded make exactly one core state-save /
\* state-load call, with the path base + "/state/" + gamename + "_" +
\* decimal(slot) + ".nst", base being the base path the constructor derived and
\* gamename the stem of the filename of the load_game call that loaded the game.
C8_QuickSlotPath ==
    (cmd.op \in QuickOps /\ cmd.pre) =>
        /\ Len(calls) = 1
        /\ calls[1][1] = (IF cmd.op = "state_qsave" THEN "jg_state_save"
                          ELSE "jg_state_load")
        /\ IsQuickSlotPath(calls[1][2], set_paths(env).basepath,
                           path_stem(lastfile), cmd.args[1])

\* C8 witness: a quick save to a two-digit slot of a game loaded from a
\* filename with a directory and an extension
C8_Witness ==
    /\ cmd.op = "state_qsave" /\ cmd.pre /\ cmd.args[1] = MaxSlot
    /\ lastfile = <<"/", "t", "/", "A", " ", "b", ".", "n">>
    /\ gamename = <<"A", " ", "b">>

\* C9: state_qsave / state_qload entered loaded return the core's status and
\* emit exactly one screen log message: save 1 "State Saved", 0 "State Save
\* Failed", other "State Save Unknown"; load 1 "State Loaded", 0 "State Load
\* Failed", other "State Load Unknown".
C9_QuickSlotLog ==
    (cmd.op \in QuickOps /\ cmd.pre) =>
        LET st == cmd.core[1]
        IN  /\ ret = st
            /\ Len(logs) = 1
            /\ logs[1][1] = JG_LOG_SCR
            /\ (cmd.op = "state_qsave" /\ st = 1) => logs[1][2] = "State Saved"
            /\ (cmd.op = "state_qsave" /\ st = 0) => logs[1][2] = "State Save Failed"
            /\ (cmd.op = "state_qsave" /\ st \notin {0, 1})
                   => logs[1][2] = "State Save Unknown"
            /\ (cmd.op = "state_qload" /\ st = 1) => logs[1][2] = "State Loaded"
            /\ (cmd.op = "state_qload" /\ st = 0) => logs[1][2] = "State Load Failed"
            /\ (cmd.op = "state_qload" /\ st \notin {0, 1})
                   => logs[1][2] = "State Load Unknown"

\* C9 witness: a quick load the core answered with a status that is neither 0 nor 1
\* and is not the manager's own code 2
C9_Witness ==
    /\ cmd.op = "state_qload" /\ cmd.pre /\ cmd.core[1] = -1 /\ ret = -1
    /\ logs = <<<<JG_LOG_SCR, "State Load Unknown">>>>

\* C10: the destructor calls deinit exactly once and first; a game loaded at
\* destruction is unloaded after the deinit, and with no game loaded there is no
\* game-unload; no other command calls deinit.
C10_DeinitBeforeFinalUnload ==
    /\ cmd.op = "~JGManager" =>
           /\ ~alive
           /\ Count(calls, "jg_deinit") = 1
           /\ calls[1] = Call0("jg_deinit")
           /\ Count(calls, "jg_game_unload") = (IF cmd.pre THEN 1 ELSE 0)
           /\ \A i \in Pos(calls, "jg_deinit"), j \in Pos(calls, "jg_game_unload") : i < j
    /\ cmd.op # "~JGManager" => (alive /\ Count(calls, "jg_deinit") = 0)

\* C10 witness: a manager destroyed while a game was loaded
C10_Witness ==
    cmd.op = "~JGManager" /\ cmd.pre /\ ~alive /\ Len(calls) = 2

\* C11: every command that calls the core's init entry (the constructor and
\* init()) hands the core's status to its caller and leaves loaded false when
\* that status reports failure.
C11_InitStatusSurfaced ==
    (cmd.op \in {"JGManager", "init"}) =>
        /\ Count(calls, "jg_init") = 1
        /\ ToString(ret) = ToString(cmd.core[1])
        /\ cmd.core[1] # 1 => (loaded = cmd.pre)

\* C12: the base path is $XDG_DATA_HOME + "/nestopia" when XDG_DATA_HOME is set
\* and not empty, $HOME + "/.local/share/nestopia" when it is unset or empty, and
\* the save path is the base path + "/save".
C12_BasePathResolution ==
    LET share == <<"/", ".", "l", "o", "c", "a", "l", "/", "s", "h", "a", "r", "e">>
        nest  == <<"/", "n", "e", "s", "t", "o", "p", "i", "a">>
    IN  /\ (env.xdg.set /\ env.xdg.val # <<>>) => basepath = env.xdg.val \o nest
        /\ ~(env.xdg.set /\ env.xdg.val # <<>>) => basepath = env.home \o share \o nest
        /\ savepath = basepath \o <<"/", "s", "a", "v", "e">>

\* C13: the registry always holds the core's descriptors in the core's order, and
\* get_setting(n) returns the first descriptor named exactly n, or null when the
\* core exports no descriptor of that name.
C13_GetSetting ==
    /\ settings = [i \in DOMAIN coresettings |-> i]
    /\ cmd.op = "get_setting" =>
           LET M == {i \in DOMAIN coresettings : coresettings[i] = cmd.args[1]}
           IN  IF M = {} THEN ret = NullPtr
               ELSE ret \in M /\ \A j \in M : ret <= j

\* C13 witness: the name asked for is carried by two descriptors, neither of
\* them the first of the array, and another descriptor differs from it by case only
C13_Witness ==
    /\ cmd.op = "get_setting" /\ cmd.args[1] = "a" /\ ret = 2
    /\ coresettings = <<"A", "a", "a">>

\* C14: get_frametime() is 60 after construction; a frametime callback with
\* interval x (t tenths) makes it floor(x + 0.5), also for negative x; no other
\* command changes it.
C14_FrametimeIsFloor ==
    /\ cmd.op = "JGManager" => get_frametime = 60
    /\ [][/\ cmd'.op = "jg_frametime" => get_frametime' = (cmd'.args[1] + 5) \div 10
          /\ cmd'.op # "jg_frametime" => get_frametime' = get_frametime]_vars

\* C15: a load_game entered with a game loaded makes the core unload that game
\* before it registers and loads the new one; at every game-load the core holds
\* no game; and when the new load fails the manager is left unloaded.
C15_ReloadUnloadsFirst ==
    cmd.op = "load_game" =>
        LET before == balance - BalanceDelta(calls, cmd.core[1])
        IN  /\ \A g \in Pos(calls, "jg_game_load") :
                   before - Cardinality({u \in Pos(calls, "jg_game_unload") : u < g}) = 0
            /\ cmd.pre =>
                   /\ Count(calls, "jg_game_unload") = 1
                   /\ \A u \in Pos(calls, "jg_game_unload"),
                         g \in Pos(calls, "jg_set_gameinfo") \cup Pos(calls, "jg_game_load") :
                          u < g
                   /\ ~cmd.core[1] => ~loaded

\* C15 witness: a failed load_game over a loaded game
C15_Witness ==
    /\ cmd.op = "load_game" /\ cmd.pre /\ ~cmd.core[1] /\ ~loaded
    /\ calls[1] = Call0("jg_game_unload")

\* the game record gi given to the core carries the strings path, name, fname, md5
RegisteredGame(gi, path, name, fname, md5) ==
    /\ gi.path = path
    /\ gi.name = name
    /\ gi.fname = fname
    /\ gi.md5 = md5

\* C16: load_game assigns the game strings while loaded is false and registers
\* them with set-gameinfo before its game-load; every other command leaves the
\* strings, and so get_gamename(), unchanged.
C16_GameStringsStable ==
    [][/\ cmd'.op = "load_game" =>
              /\ ~cmd'.atassign
              /\ \E i \in Pos(calls', "jg_set_gameinfo") :
                     /\ RegisteredGame(calls'[i][2], gamepath', gamename', gamefname',
                                       gamemd5')
                     /\ \A g \in Pos(calls', "jg_game_load") : i < g
       /\ cmd'.op # "load_game" =>
              /\ UNCHANGED <<gamepath, gamename, gamefname, gamemd5>>
              /\ get_gamename' = get_gamename]_vars

\* C16 witness: an unload_game that left the name of the unloaded game in place
C16_Witness ==
    cmd.op = "unload_game" /\ cmd.pre /\ get_gamename = <<"A", " ", "b">>

\* C17: the base, save and core paths are what the constructor derived from the
\* environment in every state; the path record holds base = bios = user = base
\* path, save = save path, core = core path; and that record is registered with
\* the core once, by the constructor, and by no later command.
C17_PathsSetOnce ==
    LET want == [base |-> basepath, bios |-> basepath, user |-> basepath,
                 save |-> savepath, core |-> corepath]
    IN  /\ get_basepath = set_paths(env).basepath
        /\ savepath = set_paths(env).savepath
        /\ corepath = set_paths(env).corepath
        /\ pathinfo = want
        /\ Count(calls, "jg_set_paths") = (IF cmd.op = "JGManager" THEN 1 ELSE 0)
        /\ \A i \in Pos(calls, "jg_set_paths") : calls[i][2] = want

\* C17 witness: the paths of a manager run from the source tree, after a load
C17_Witness ==
    /\ cmd.op = "load_game" /\ env.intree /\ pathinfo.core = PwdValue
    /\ pathinfo.bios = basepath

\* C18: the constructor registers the paths, the frametime callback and the log
\* callback once each, all before its jg_init, and loads no game; no later
\* command, init() included, registers any of them again.
C18_RegistrationsBeforeInit ==
    LET regs == {"jg_set_paths", "jg_set_cb_frametime", "jg_set_cb_log"}
    IN  /\ cmd.op = "JGManager" =>
               /\ \A r \in regs : Count(calls, r) = 1
               /\ Count(calls, "jg_init") = 1
               /\ \A r \in regs : \A i \in Pos(calls, r), j \in Pos(calls, "jg_init") : i < j
               /\ Count(calls, "jg_game_load") = 0
        /\ cmd.op # "JGManager" => \A r \in regs : Count(calls, r) = 0

\* C18 witness: a later init() that reaches the core alone
C18_Witness == cmd.op = "init" /\ calls = <<Call0("jg_init")>>

\* C19: every path state_qsave / state_qload hand to the core is
\* <base>/state/<gamename>_ followed by one or more decimal digits and ".nst".
C19_QuickSlotGrammar ==
    (cmd.op \in QuickOps /\ cmd.pre) =>
        LET p      == calls[1][2]
            prefix == basepath \o <<"/", "s", "t", "a", "t", "e", "/">> \o gamename \o <<"_">>
            suffix == <<".", "n", "s", "t">>
            slot   == SubSeq(p, Len(prefix) + 1, Len(p) - Len(suffix))
        IN  /\ Len(p) > Len(prefix) + Len(suffix)
            /\ SubSeq(p, 1, Len(prefix)) = prefix
            /\ SubSeq(p, Len(p) - Len(suffix) + 1, Len(p)) = suffix
            /\ \A i \in DOMAIN slot : \E k \in DOMAIN DigitChars : DigitChars[k] = slot[i]

\* C20: the successful core game-loads minus the core game-unloads is 1 while a
\* game is loaded and 0 otherwise, so the core is never asked to unload a game it
\* does not hold.
C20_CoreBalance ==
    /\ balance = (IF loaded THEN 1 ELSE 0)
    /\ balance >= 0

\* C20 witness: a failed load_game over a loaded game leaves the core empty
C20_Witness ==
    cmd.op = "load_game" /\ cmd.pre /\ ~cmd.core[1] /\ balance = 0 /\ Len(calls) = 3

====
